---- MODULE Spec2Model ----
(***************************************************************************)
(* The administrative user lifecycle of UserAdminService: create, update,  *)
(* delete and restore, each a sequence of awaited collaborator calls       *)
(* (user store, album store, job queue).  One action per awaited call, so  *)
(* that concurrent requests interleave exactly at the await points.        *)
(***************************************************************************)
EXTENDS Integers, Sequences, FiniteSets, TLC

\* ------------------------------------------------------------------ bounds
MaxUsers == 2
MaxQuota == 1
MaxJobs == 2

UserIds == 1..MaxUsers
Procs == {"p1", "p2"}

\* ------------------------------------------------------------- constants
NULL == "null"
TIMESTAMP == "date"

\* quotaSizeInBytes is number | null in the user record; null is written -1.
NullQuota == 0 - 1

\* The principal of the requests: the server's admin.
AdminId == 1

ACTIVE == "active"
DELETED == "deleted"
REMOVING == "removing"

\* users, albums, metadata, jobs: the user store, the album store (deletedAt of
\* the albums of each owner), the preferences metadata and the job queue.
\* calls: the requests being served.  overlapped: history, the users on whom
\* a delete or restore began while another delete or restore was in flight.
VARIABLES users, albums, metadata, jobs, calls, overlapped

vars == <<users, albums, metadata, jobs, calls, overlapped>>

\* ------------------------------------------------------- collaborators
\* userRepository.get(id, options): soft-deleted rows are hidden unless
\* options.withDeleted is set.
\* The result is the set of rows found: empty for null, else the one user.
Get(id, options) ==
  IF id \notin DOMAIN users THEN {}
  ELSE IF ~options.withDeleted /\ users[id].deletedAt # NULL THEN {}
  ELSE {users[id]}

The(found) == CHOOSE user \in found : TRUE

\* userRepository.update(id, patch): the fields of the patch overwrite the
\* stored ones, the others are kept.
Merge(user, patch) ==
  [f \in DOMAIN user |-> IF f \in DOMAIN patch THEN patch[f] ELSE user[f]]

RepoUpdate(id, patch) ==
  IF id \in DOMAIN users THEN [users EXCEPT ![id] = Merge(users[id], patch)] ELSE users

\* albumRepository.softDeleteAll(userId) / restoreAll(userId): deletedAt of
\* every album owned by the user.
SoftDeleteAll(id) == [albums EXCEPT ![id] = TIMESTAMP]

RestoreAll(id) == [albums EXCEPT ![id] = NULL]

\* jobRepository.queue(item).  The queue holds MaxJobs items; on a full queue
\* the call can only reject (CollaboratorFails).
QueueHasRoom == Len(jobs) < MaxJobs

Queue(item) == Append(jobs, item)

\* ------------------------------------------------------------ requests
\* A request in flight: the handler, its arguments, the collaborator call it
\* awaits (pc), the row its lookup resolved, and the calls it has completed.
Idle == [op |-> "idle", pc |-> "idle", id |-> 0, dto |-> <<>>, user |-> <<>>,
         newPreferences |-> <<>>, result |-> NULL, log |-> <<>>]

Running(p) == calls[p].pc \notin {"idle", "done"}

\* A command object: each optional field is present or not.
Has(dto, field) == field \in DOMAIN dto

Opt(field, values) == {<<>>} \cup { [f \in {field} |-> v] : v \in values }

\* JavaScript truthiness of an optional boolean, and of an optional number.
Truthy(dto, field) == Has(dto, field) /\ dto[field] = TRUE

TruthyNumber(dto, field) == Has(dto, field) /\ dto[field] # 0

\* The awaited call has returned: it joins the log, and the handler goes on
\* to its next call (Goto) or ends, returning or throwing (Finish).
Goto(p, step) ==
  calls' = [calls EXCEPT ![p].pc = step, ![p].log = Append(@, calls[p].pc)]

Finish(p, res) ==
  calls' = [calls EXCEPT ![p].pc = "done", ![p].result = res,
                         ![p].log = Append(@, calls[p].pc)]

\* The awaited call has rejected: the handler ends with its error.
Throw(p, res) ==
  calls' = [calls EXCEPT ![p].pc = "done", ![p].result = res]

\* const user = await this.userRepository.get(id, options), a row found.
Resolve(p, user, step) ==
  calls' = [calls EXCEPT ![p].user = user, ![p].pc = step, ![p].log = Append(@, "get")]

\* No other request is in flight or holds a result.
Alone(p) == \A q \in Procs \ {p} : calls[q] = Idle

\* A request arrives; with `serial`, only once the others have been answered.
Lifecycle(call) == call.op \in {"delete", "restore"}

Overlaps(p, call) ==
  /\ Lifecycle(call)
  /\ \E q \in Procs \ {p} : Running(q) /\ Lifecycle(calls[q]) /\ calls[q].id = call.id

Begin(p, call, serial) ==
  /\ ~Running(p)
  /\ serial => Alone(p)
  /\ calls' = [calls EXCEPT ![p] = call]
  /\ overlapped' = IF Overlaps(p, call) THEN overlapped \cup {call.id} ELSE overlapped
  /\ UNCHANGED <<users, albums, metadata, jobs>>

\* -------------------------------------------------------------- create
CreateDtos ==
  { [quotaSizeInBytes |-> q, memoriesEnabled |-> m, notify |-> n] :
      q \in {NullQuota} \cup (0..MaxQuota), m \in BOOLEAN, n \in BOOLEAN }

NewUser(quota) ==
  [isAdmin |-> FALSE, status |-> ACTIVE, deletedAt |-> NULL, quotaSizeInBytes |-> quota]

DefaultPreferences == [memories |-> TRUE]

\* userCore.createUser(rest): a new ACTIVE row, never an admin.
CreateUserRow(id, dto) ==
  [u \in DOMAIN users \cup {id} |-> IF u = id THEN NewUser(dto.quotaSizeInBytes) ELSE users[u]]

NotifyJob(id) == [name |-> "NOTIFY_SIGNUP", id |-> id, tempPassword |-> "password"]

StartCreate(p, dtos, serial) ==
  \E dto \in dtos :
    Begin(p, [Idle EXCEPT !.op = "create", !.pc = "createUser", !.dto = dto], serial)

CreateCreateUser(p) ==
  /\ calls[p].op = "create" /\ calls[p].pc = "createUser"
  /\ \E id \in UserIds \ DOMAIN users :
       /\ users' = CreateUserRow(id, calls[p].dto)
       /\ LET step == IF calls[p].dto.memoriesEnabled = FALSE THEN "upsertMetadata"
                      ELSE IF calls[p].dto.notify THEN "queue" ELSE "done"
          IN calls' = [calls EXCEPT ![p].id = id, ![p].user = users'[id], ![p].pc = step,
                                    ![p].result = IF step = "done" THEN "ok" ELSE NULL,
                                    ![p].log = Append(@, "createUser")]
  /\ UNCHANGED <<overlapped, albums, metadata, jobs>>

CreateUpsertMetadata(p) ==
  /\ calls[p].op = "create" /\ calls[p].pc = "upsertMetadata"
  /\ metadata' = [metadata EXCEPT ![calls[p].id] = [memories |-> FALSE]]
  /\ Goto(p, "get")
  /\ UNCHANGED <<overlapped, users, albums, jobs>>

CreateFindOrFail(p) ==
  /\ calls[p].op = "create" /\ calls[p].pc = "get"
  /\ LET found == Get(calls[p].id, [withDeleted |-> FALSE]) IN
       IF found = {} THEN Finish(p, "NotFound")
       ELSE IF calls[p].dto.notify THEN Resolve(p, The(found), "queue")
       ELSE calls' = [calls EXCEPT ![p].user = The(found), ![p].pc = "done",
                                   ![p].result = "ok", ![p].log = Append(@, "get")]
  /\ UNCHANGED <<overlapped, users, albums, metadata, jobs>>

CreateQueue(p) ==
  /\ calls[p].op = "create" /\ calls[p].pc = "queue"
  /\ QueueHasRoom
  /\ jobs' = Queue(NotifyJob(calls[p].id))
  /\ Finish(p, "ok")
  /\ UNCHANGED <<overlapped, users, albums, metadata>>

\* -------------------------------------------------------------- update
\* Of the two preference shortcuts of the command, memoriesEnabled and
\* avatarColor, which take the same path, the model carries memoriesEnabled.
UpdateDtos ==
  { q @@ m @@ i :
      q \in Opt("quotaSizeInBytes", 0..MaxQuota), m \in Opt("memoriesEnabled", BOOLEAN),
      i \in Opt("isAdmin", {TRUE}) }

UpdateFindOptions == [withDeleted |-> FALSE]

\* dto.quotaSizeInBytes && user.quotaSizeInBytes !== dto.quotaSizeInBytes
QuotaChanged(dto, user) ==
  TruthyNumber(dto, "quotaSizeInBytes") /\ user.quotaSizeInBytes # dto.quotaSizeInBytes

\* dto.memoriesEnabled !== undefined
HasPreferences(dto) == Has(dto, "memoriesEnabled")

\* getPreferences(user), the preferences of the row the lookup resolved,
\* overlaid with the shortcut field of the command.
NewPreferences(dto, preferences) ==
  [memories |-> IF Has(dto, "memoriesEnabled") THEN dto.memoriesEnabled ELSE preferences.memories]

\* delete dto.memoriesEnabled
Without(dto, fields) == [f \in DOMAIN dto \ fields |-> dto[f]]

AfterSync(dto) == IF HasPreferences(dto) THEN "upsertMetadata" ELSE "updateUser"

AfterLookup(dto, user) == IF QuotaChanged(dto, user) THEN "syncUsage" ELSE AfterSync(dto)

\* userCore.updateUser(auth.user, id, dto): an admin cannot make another user
\* an admin.
GrantsAdmin(actor, id, dto) == Truthy(dto, "isAdmin") /\ actor # id

StartUpdate(p, dtos, serial) ==
  \E id \in UserIds, dto \in dtos :
    Begin(p, [Idle EXCEPT !.op = "update", !.pc = "get", !.id = id, !.dto = dto], serial)

UpdateFindOrFail(p) ==
  /\ calls[p].op = "update" /\ calls[p].pc = "get"
  /\ LET found == Get(calls[p].id, UpdateFindOptions) IN
       IF found = {} THEN Finish(p, "NotFound")
       ELSE calls' = [calls EXCEPT
              ![p].user = The(found),
              ![p].newPreferences =
                 IF HasPreferences(calls[p].dto)
                   THEN NewPreferences(calls[p].dto, metadata[calls[p].id]) ELSE <<>>,
              ![p].pc = AfterLookup(calls[p].dto, The(found)),
              ![p].log = Append(@, "get")]
  /\ UNCHANGED <<overlapped, users, albums, metadata, jobs>>

\* userRepository.syncUsage(id) recomputes the stored usage, which no other
\* step reads: the call shows in the log of the request only.
UpdateSyncUsage(p) ==
  /\ calls[p].op = "update" /\ calls[p].pc = "syncUsage"
  /\ Goto(p, AfterSync(calls[p].dto))
  /\ UNCHANGED <<overlapped, users, albums, metadata, jobs>>

UpdateUpsertMetadata(p) ==
  /\ calls[p].op = "update" /\ calls[p].pc = "upsertMetadata"
  /\ metadata' = [metadata EXCEPT ![calls[p].id] = calls[p].newPreferences]
  /\ calls' = [calls EXCEPT ![p].pc = "updateUser",
                            ![p].dto = Without(@, {"memoriesEnabled"}),
                            ![p].log = Append(@, "upsertMetadata")]
  /\ UNCHANGED <<overlapped, users, albums, jobs>>

UpdateUpdateUser(p) ==
  /\ calls[p].op = "update" /\ calls[p].pc = "updateUser"
  /\ IF GrantsAdmin(AdminId, calls[p].id, calls[p].dto)
       THEN Throw(p, "BadRequest") /\ UNCHANGED users
       ELSE /\ users' = RepoUpdate(calls[p].id, Without(calls[p].dto, {"memoriesEnabled"}))
            /\ Finish(p, "ok")
  /\ UNCHANGED <<overlapped, albums, metadata, jobs>>

\* -------------------------------------------------------------- delete
DeleteDtos == Opt("force", BOOLEAN)

\* Faulty variant: the lookup of delete includes soft-deleted rows.
DeleteFindOptionsWithDeleted == [withDeleted |-> TRUE]

DeleteFindOptions == [withDeleted |-> FALSE]

\* Faulty variant: the admin check is missing.
DeleteForbiddenNever(user) == FALSE

DeleteForbidden(user) == user.isAdmin

DeleteStatus(force) == IF force THEN REMOVING ELSE DELETED

DeletePatch(force) == [status |-> DeleteStatus(force), deletedAt |-> TIMESTAMP]

\* Faulty variant: the job is queued whatever the flag.
DeleteQueuesAlways(force) == TRUE

DeleteQueues(force) == force

DeleteJob(id, force) == [name |-> "USER_DELETION", id |-> id, force |-> force]

StartDelete(p, dtos, serial) ==
  \E id \in UserIds, dto \in dtos :
    Begin(p, [Idle EXCEPT !.op = "delete", !.pc = "get", !.id = id, !.dto = dto], serial)

DeleteFindOrFail(p) ==
  /\ calls[p].op = "delete" /\ calls[p].pc = "get"
  /\ LET found == Get(calls[p].id, DeleteFindOptions) IN
       IF found = {} THEN Finish(p, "NotFound")
       ELSE IF DeleteForbidden(The(found))
         THEN calls' = [calls EXCEPT ![p].user = The(found), ![p].pc = "done",
                                     ![p].result = "Forbidden", ![p].log = Append(@, "get")]
       ELSE Resolve(p, The(found), "softDeleteAll")
  /\ UNCHANGED <<overlapped, users, albums, metadata, jobs>>

\* Faulty variant: the albums are not soft-deleted.
DeleteSoftDeleteAllSkipped(p) ==
  /\ calls[p].op = "delete" /\ calls[p].pc = "softDeleteAll"
  /\ Goto(p, "update")
  /\ UNCHANGED <<overlapped, users, albums, metadata, jobs>>

DeleteSoftDeleteAll(p) ==
  /\ calls[p].op = "delete" /\ calls[p].pc = "softDeleteAll"
  /\ albums' = SoftDeleteAll(calls[p].id)
  /\ Goto(p, "update")
  /\ UNCHANGED <<overlapped, users, metadata, jobs>>

DeleteUpdate(p) ==
  /\ calls[p].op = "delete" /\ calls[p].pc = "update"
  /\ users' = RepoUpdate(calls[p].id, DeletePatch(Truthy(calls[p].dto, "force")))
  /\ IF DeleteQueues(Truthy(calls[p].dto, "force")) THEN Goto(p, "queue") ELSE Finish(p, "ok")
  /\ UNCHANGED <<overlapped, albums, metadata, jobs>>

DeleteQueue(p) ==
  /\ calls[p].op = "delete" /\ calls[p].pc = "queue"
  /\ QueueHasRoom
  /\ jobs' = Queue(DeleteJob(calls[p].id, Truthy(calls[p].dto, "force")))
  /\ Finish(p, "ok")
  /\ UNCHANGED <<overlapped, users, albums, metadata>>

\* ------------------------------------------------------------- restore
RestoreFindOptions == [withDeleted |-> TRUE]

\* Faulty variant: the patch clears deletedAt and leaves the status.
RestorePatchDeletedAtOnly == [deletedAt |-> NULL]

RestorePatch == [deletedAt |-> NULL, status |-> ACTIVE]

StartRestore(p, serial) ==
  \E id \in UserIds :
    Begin(p, [Idle EXCEPT !.op = "restore", !.pc = "get", !.id = id], serial)

RestoreFindOrFail(p) ==
  /\ calls[p].op = "restore" /\ calls[p].pc = "get"
  /\ LET found == Get(calls[p].id, RestoreFindOptions) IN
       IF found = {} THEN Finish(p, "NotFound")
       ELSE Resolve(p, The(found), "restoreAll")
  /\ UNCHANGED <<overlapped, users, albums, metadata, jobs>>

\* Faulty variant: the albums are not restored.
RestoreRestoreAllSkipped(p) ==
  /\ calls[p].op = "restore" /\ calls[p].pc = "restoreAll"
  /\ Goto(p, "update")
  /\ UNCHANGED <<overlapped, users, albums, metadata, jobs>>

RestoreRestoreAll(p) ==
  /\ calls[p].op = "restore" /\ calls[p].pc = "restoreAll"
  /\ albums' = RestoreAll(calls[p].id)
  /\ Goto(p, "update")
  /\ UNCHANGED <<overlapped, users, metadata, jobs>>

RestoreUpdate(p) ==
  /\ calls[p].op = "restore" /\ calls[p].pc = "update"
  /\ users' = RepoUpdate(calls[p].id, RestorePatch)
  /\ Finish(p, "ok")
  /\ UNCHANGED <<overlapped, albums, metadata, jobs>>

\* ------------------------------------------------- collaborator failure
\* Any awaited collaborator call may reject; no handler catches: the
\* rejection propagates, no further step runs and nothing is undone.
\* Faulty variant: a rejection is compensated, the user row put back as resolved and
\* the albums restored.
CollaboratorFailsCompensated(p) ==
  /\ Running(p)
  /\ Throw(p, "DownstreamFailure")
  /\ users' = IF calls[p].user # <<>> THEN RepoUpdate(calls[p].id, calls[p].user) ELSE users
  /\ albums' = IF calls[p].op = "delete" THEN RestoreAll(calls[p].id) ELSE albums
  /\ UNCHANGED <<overlapped, metadata, jobs>>

CollaboratorFails(p) ==
  /\ Running(p)
  /\ Throw(p, "DownstreamFailure")
  /\ UNCHANGED <<overlapped, users, albums, metadata, jobs>>

\* ---------------------------------------------------------------- spec
\* The server after setup: the admin, and nothing else.
Init ==
  /\ users = [u \in {AdminId} |-> [NewUser(NullQuota) EXCEPT !.isAdmin = TRUE]]
  /\ albums = [u \in UserIds |-> NULL]
  /\ metadata = [u \in UserIds |-> DefaultPreferences]
  /\ jobs = <<>>
  /\ calls = [p \in Procs |-> Idle]
  /\ overlapped = {}

\* The commands the requests carry.
Inputs == [create |-> CreateDtos, update |-> UpdateDtos, delete |-> DeleteDtos]

\* For concurrent requests: the fields that no lifecycle decision reads take
\* one value each.
ConcInputs ==
  [create |-> { [quotaSizeInBytes |-> NullQuota, memoriesEnabled |-> FALSE, notify |-> TRUE] },
   update |-> { [isAdmin |-> TRUE], [quotaSizeInBytes |-> MaxQuota, memoriesEnabled |-> FALSE] },
   delete |-> DeleteDtos]

Step(p, in, serial) ==
  \/ StartCreate(p, in.create, serial)
  \/ CreateCreateUser(p)
  \/ CreateUpsertMetadata(p)
  \/ CreateFindOrFail(p)
  \/ CreateQueue(p)
  \/ StartUpdate(p, in.update, serial)
  \/ UpdateFindOrFail(p)
  \/ UpdateSyncUsage(p)
  \/ UpdateUpsertMetadata(p)
  \/ UpdateUpdateUser(p)
  \/ StartDelete(p, in.delete, serial)
  \/ DeleteFindOrFail(p)
  \/ DeleteSoftDeleteAll(p)
  \/ DeleteUpdate(p)
  \/ DeleteQueue(p)
  \/ StartRestore(p, serial)
  \/ RestoreFindOrFail(p)
  \/ RestoreRestoreAll(p)
  \/ RestoreUpdate(p)

\* Requests served one at a time; any collaborator call may reject.
Next == \E p \in Procs : Step(p, Inputs, TRUE) \/ CollaboratorFails(p)

Spec == Init /\ [][Next]_vars

\* Requests served concurrently, every collaborator call succeeding: the
\* handlers interleave at their awaits.
ConcNext == \E p \in Procs : Step(p, ConcInputs, FALSE)

ConcSpec == Init /\ [][ConcNext]_vars

\* -------------------------------------------------------------- claims
Quiescent == \A p \in Procs : ~Running(p)

Done(p, op) == calls[p].op = op /\ calls[p].pc = "done"

Removed(u) == users[u].status \in {DELETED, REMOVING}

Forced(p) == Truthy(calls[p].dto, "force")

\* C1: under any interleaving of the awaited steps of create, update, delete
\* and restore, no user with isAdmin = true has status DELETED or REMOVING.
C1_AdminNeverRemoved == \A u \in DOMAIN users : users[u].isAdmin => ~Removed(u)

\* A delete of the admin was refused and an attempt to make a user an admin
\* was refused, that user having been deleted meanwhile.
C1_Witness ==
  \E p, q \in Procs :
    /\ Done(p, "delete") /\ calls[p].result = "Forbidden" /\ users[calls[p].id].isAdmin
    /\ Done(q, "update") /\ calls[q].result = "BadRequest" /\ Removed(calls[q].id)

\* C2: a delete of a user whose isAdmin flag is true ends, at its lookup,
\* with Forbidden (or with the rejection of the lookup itself), whatever
\* force is, and no step of it writes the user, an album or a job.
C2_DeleteAdminForbidden ==
  [][\A p \in Procs :
       ( /\ calls[p].op = "delete" /\ calls[p].pc = "get"
         /\ calls[p].id \in DOMAIN users /\ users[calls[p].id].isAdmin )
       => /\ UNCHANGED <<users, albums, metadata, jobs>>
          /\ calls'[p].pc = "done"
          /\ calls'[p].result =
               IF calls'[p].log = <<"get">> THEN "Forbidden" ELSE "DownstreamFailure"]_vars

C2_Witness ==
  \E p \in Procs :
    /\ Done(p, "delete") /\ calls[p].result = "Forbidden" /\ Forced(p)
    /\ users[calls[p].id].isAdmin /\ users[calls[p].id].status = ACTIVE
    /\ users[calls[p].id].deletedAt = NULL /\ jobs = <<>>

\* C3: in every reachable state each user record has deletedAt non-null if
\* and only if its status is DELETED or REMOVING.
C3_StatusMatchesDeletedAt ==
  \A u \in DOMAIN users : (users[u].deletedAt # NULL) <=> Removed(u)

\* A user deleted, restored and deleted again.
C3_Witness ==
  \E p, q \in Procs :
    /\ Done(p, "restore") /\ calls[p].result = "ok" /\ calls[p].user.status = DELETED
    /\ Done(q, "delete") /\ calls[q].result = "ok" /\ calls[q].id = calls[p].id
    /\ users[calls[q].id].status = REMOVING /\ users[calls[q].id].deletedAt # NULL

\* C4: no step takes a user whose status is REMOVING to status ACTIVE.
C4_RemovingNeverActive ==
  [][\A u \in DOMAIN users : users[u].status = REMOVING => users'[u].status # ACTIVE]_vars

\* C5: a successful delete leaves deletedAt non-null and the status REMOVING
\* when force is true, DELETED otherwise; a delete queues a job only when
\* force is true, one job, carrying the id, after the status write.
C5_DeleteWritesAndQueues ==
  [][\A p \in Procs :
       (calls[p].op = "delete" /\ Running(p))
       => LET id == calls[p].id IN
          /\ jobs' # jobs
               => /\ Forced(p)
                  /\ calls[p].log = <<"get", "softDeleteAll", "update">>
                  /\ users[id].status = REMOVING
                  /\ jobs' = Append(jobs, [name |-> "USER_DELETION", id |-> id, force |-> TRUE])
          /\ (calls'[p].pc = "done" /\ calls'[p].result = "ok")
               => /\ users'[id].deletedAt # NULL
                  /\ users'[id].status = IF Forced(p) THEN REMOVING ELSE DELETED
                  /\ calls'[p].log =
                       IF Forced(p) THEN <<"get", "softDeleteAll", "update", "queue">>
                       ELSE <<"get", "softDeleteAll", "update">>]_vars

C5_Witness ==
  \E p \in Procs :
    /\ Done(p, "delete") /\ calls[p].result = "ok" /\ Forced(p)
    /\ users[calls[p].id].status = REMOVING /\ users[calls[p].id].deletedAt # NULL
    /\ jobs # <<>>
    /\ jobs[Len(jobs)] = [name |-> "USER_DELETION", id |-> calls[p].id, force |-> TRUE]

C7_RestoreSoftDeleted ==
  \A p \in Procs :
    (Done(p, "restore") /\ calls[p].result = "ok" /\ calls[p].user.status = DELETED)
    => /\ users[calls[p].id].status = ACTIVE
       /\ users[calls[p].id].deletedAt = NULL
       /\ albums[calls[p].id] = NULL
       /\ calls[p].log = <<"get", "restoreAll", "update">>

C7_Witness ==
  \E p \in Procs :
    /\ Done(p, "restore") /\ calls[p].result = "ok"
    /\ calls[p].user.status = DELETED /\ calls[p].user.deletedAt # NULL
    /\ users[calls[p].id].status = ACTIVE /\ albums[calls[p].id] = NULL

\* C8: a successful update calls syncUsage once, before the patch, when the
\* command carries a quotaSizeInBytes that differs from the stored one (0
\* included), and not at all otherwise.
C8_ResyncWhenQuotaDiffers ==
  \A p \in Procs :
    (Done(p, "update") /\ calls[p].result = "ok")
    => LET log == calls[p].log
           differs == /\ Has(calls[p].dto, "quotaSizeInBytes")
                      /\ calls[p].dto.quotaSizeInBytes # calls[p].user.quotaSizeInBytes
           syncs == {i \in DOMAIN log : log[i] = "syncUsage"}
       IN /\ Cardinality(syncs) = IF differs THEN 1 ELSE 0
          /\ \A i \in syncs : \A j \in DOMAIN log : log[j] = "updateUser" => i < j

\* C9: a rejected collaborator call ends the operation and undoes nothing:
\* the writes made before it stand (a rejected queue leaves the user REMOVING
\* with deletedAt set and the albums soft-deleted).
C9_FailureKeepsWrites ==
  [][\A p \in Procs :
       (Running(p) /\ calls'[p].result = "DownstreamFailure")
       => LET id == calls[p].id IN
          /\ UNCHANGED <<users, albums, metadata, jobs>>
          /\ calls'[p].pc = "done" /\ calls'[p].log = calls[p].log
          /\ (calls[p].op = "delete" /\ calls[p].pc = "queue")
               => /\ users'[id].status = REMOVING /\ users'[id].deletedAt # NULL
                  /\ albums'[id] # NULL
          /\ (calls[p].op = "delete" /\ calls[p].pc = "update")
               => albums'[id] # NULL /\ users'[id] = calls[p].user
          /\ (calls[p].op = "restore" /\ calls[p].pc = "update")
               => albums'[id] = NULL /\ users'[id] = calls[p].user]_vars

C9_Witness ==
  \E p \in Procs :
    /\ Done(p, "delete") /\ calls[p].result = "DownstreamFailure"
    /\ calls[p].log = <<"get", "softDeleteAll", "update">>
    /\ users[calls[p].id].status = REMOVING /\ users[calls[p].id].deletedAt # NULL
    /\ albums[calls[p].id] # NULL
    /\ \A i \in DOMAIN jobs : jobs[i].name # "USER_DELETION"

AlbumsFollowUser(u) == (albums[u] # NULL) <=> Removed(u)

====
